---- MODULE Spec2Model ----
(***************************************************************************)
(* A model of the request-dispatch core of godi-code:                      *)
(*   router.Mux      (src/vendor/github.com/kkrs/di/router/mux.go)         *)
(*   di.Dispatcher   (src/vendor/github.com/kkrs/di/dispatcher.go)         *)
(*                                                                         *)
(* Strings of the program that the code inspects character by character    *)
(* (URL paths and ServeMux patterns) are sequences of one-character        *)
(* strings; all other strings (verbs, labels, method names) are TLA+       *)
(* strings.                                                                *)
(***************************************************************************)
EXTENDS Integers, Sequences, FiniteSets, TLC

(***************************************************************************)
(* Bounds of the model.                                                    *)
(***************************************************************************)
MaxPathLen == 3
MaxBindings == 2
MaxCalls == 4
MaxPosts == 3

(***************************************************************************)
(* HTTP status codes written by the Mux chain.                             *)
(***************************************************************************)
StatusMethodNotAllowed == 405
StatusNotFound == 404
StatusMovedPermanently == 301

(***************************************************************************)
(* Input domains.                                                          *)
(***************************************************************************)
Chars == {"/", "a"}

\* All sequences over Chars of length 0..n.
RECURSIVE SeqsUpTo(_)
SeqsUpTo(n) ==
    IF n = 0 THEN {<<>>}
    ELSE LET shorter == SeqsUpTo(n - 1)
         IN  shorter \cup {Append(s, c) : s \in {t \in shorter : Len(t) = n - 1}, c \in Chars}

\* Request paths: a server request's URL.Path starts with a slash.
Paths == {s \in SeqsUpTo(MaxPathLen) : Len(s) >= 1 /\ s[1] = "/"}

\* Patterns passed to Handle: "", "/", "/a", "/a/".
Patterns == {<<>>, <<"/">>, <<"/", "a">>, <<"/", "a", "/">>}

\* Verbs passed to Mux.Handle directly (stored as given) and request methods.
Verbs == {"GET", "POST", "post"}

\* Opaque handlers passed to Mux.Handle / Mux.HandleFunc by a direct caller.
FuncNames == {"h1", "h2"}

NoHandler == [kind |-> "none", name |-> "", ctrlType |-> "", as |-> "", meth |-> ""]

FuncHandler(n) == [kind |-> "func", name |-> n, ctrlType |-> "", as |-> "", meth |-> ""]

FuncHandlers == {FuncHandler(n) : n \in FuncNames}

Request(v, p) == [verb |-> v, path |-> p]

Requests == {Request(v, p) : v \in Verbs, p \in Paths}

(***************************************************************************)
(* net/http.ServeMux as mux.go uses it (patternMux).  The table maps each  *)
(* registered pattern to the handler registered for it; mux.go only ever   *)
(* registers verbMux values, so an entry is a verbMux: a map from verb to  *)
(* handler, here a function whose domain is the set of verbs it holds.     *)
(***************************************************************************)
EmptyMap == [x \in {} |-> NoHandler]

\* path.Clean on a rooted path without dot segments: runs of slashes
\* collapse to one and a trailing slash is dropped (except for the root).
RECURSIVE Collapse(_)
Collapse(p) ==
    IF Len(p) <= 1 THEN p
    ELSE IF p[1] = "/" /\ p[2] = "/" THEN Collapse(Tail(p))
    ELSE <<p[1]>> \o Collapse(Tail(p))

PathClean(p) ==
    LET c == Collapse(p)
    IN  IF Len(c) > 1 /\ c[Len(c)] = "/" THEN SubSeq(c, 1, Len(c) - 1) ELSE c

\* net/http cleanPath: the canonical path, keeping a trailing slash.
cleanPath(p) ==
    IF p = <<>> THEN <<"/">>
    ELSE LET q  == IF p[1] # "/" THEN <<"/">> \o p ELSE p
             np == PathClean(q)
         IN  IF q[Len(q)] = "/" /\ np # <<"/">> THEN Append(np, "/") ELSE np

\* net/http pathMatch: a pattern ending in a slash names a subtree, any
\* other pattern names exactly one path.
pathMatch(pattern, path) ==
    IF Len(pattern) = 0 THEN FALSE
    ELSE IF pattern[Len(pattern)] # "/" THEN pattern = path
    ELSE Len(path) >= Len(pattern) /\ SubSeq(path, 1, Len(pattern)) = pattern

\* The registered patterns that match a path.
Matching(pm, path) == {k \in DOMAIN pm : pathMatch(k, path)}

\* Mutant of LongestMatch: the shortest registered pattern matching the path.
ShortestMatch(pm, path) ==
    CHOOSE k \in Matching(pm, path) : \A j \in Matching(pm, path) : Len(j) >= Len(k)

\* ServeMux.match: the longest registered pattern matching the path.
LongestMatch(pm, path) ==
    CHOOSE k \in Matching(pm, path) : \A j \in Matching(pm, path) : Len(j) <= Len(k)

\* ServeMux redirects /tree to /tree/ when only the subtree is registered.
RedirectsToSlash(pm, path) ==
    /\ path \notin DOMAIN pm
    /\ Append(path, "/") \in DOMAIN pm

\* ServeMux.Handle panics on an empty pattern and on a pattern that is
\* already registered ("http: multiple registrations for ...").
ServeMuxHandlePanics(pm, pattern) == pattern = <<>> \/ pattern \in DOMAIN pm

\* Mutant of ServeMuxHandle: the new pattern replaces the table.
ServeMuxHandleReplaces(pm, pattern, h) == (pattern :> h)

\* ServeMux.Handle(pattern, h) when it does not panic.
ServeMuxHandle(pm, pattern, h) == (pattern :> h) @@ pm


NoResponse == 0

Outcome(status, handler) == [status |-> status, handler |-> handler]

\* Mutant of verbMuxServeHTTP: a missing verb answered like a missing pattern.
verbMuxServeHTTPNotFound(vm, req) ==
    IF req.verb \notin DOMAIN vm
    THEN Outcome(StatusNotFound, NoHandler)
    ELSE Outcome(NoResponse, vm[req.verb])

\* verbMux.ServeHTTP: the handler stored for the request's method, taken
\* verbatim, or 405 when the verb table holds none.
verbMuxServeHTTP(vm, req) ==
    IF req.verb \notin DOMAIN vm
    THEN Outcome(StatusMethodNotAllowed, NoHandler)
    ELSE Outcome(NoResponse, vm[req.verb])

\* patternMux.ServeHTTP: ServeMux redirects a non-canonical path and a
\* subtree root named without its slash, answers 404 when no pattern
\* matches, and otherwise hands the request to the longest matching
\* pattern's handler (a verbMux).
patternMuxServeHTTP(pm, req) ==
    IF cleanPath(req.path) # req.path THEN Outcome(StatusMovedPermanently, NoHandler)
    ELSE IF RedirectsToSlash(pm, req.path) THEN Outcome(StatusMovedPermanently, NoHandler)
    ELSE IF Matching(pm, req.path) = {} THEN Outcome(StatusNotFound, NoHandler)
    ELSE verbMuxServeHTTP(pm[LongestMatch(pm, req.path)], req)

(***************************************************************************)
(* Mux.Handle.  byPattern is the Mux's own map from pattern to verbMux; a  *)
(* verbMux is a Go map, so the value found there and the value registered  *)
(* with patternMux are one object: a write through either is seen through  *)
(* both.                                                                   *)
(***************************************************************************)
\* Whether Mux.Handle panics (inside patternMux.Handle).
MuxHandlePanics(bp, pm, pattern) ==
    /\ pattern \notin DOMAIN bp
    /\ ServeMuxHandlePanics(pm, pattern)

\* The verbMux Handle writes to: the one byPattern holds, else a new one.
HandleVerbMux(bp, pattern) == IF pattern \in DOMAIN bp THEN bp[pattern] ELSE EmptyMap

\* patternMux after a Handle call that does not panic.
MuxHandlePatternMux(bp, pm, verb, pattern, handler) ==
    LET h   == HandleVerbMux(bp, pattern)
        pm1 == IF pattern \in DOMAIN bp THEN pm ELSE ServeMuxHandle(pm, pattern, h)
    IN  IF pattern \in DOMAIN pm1
        THEN [pm1 EXCEPT ![pattern] = (verb :> handler) @@ h]
        ELSE pm1

\* byPattern after a Handle call that does not panic: Handle stores no new
\* key in it; a verbMux found in it is updated in place.
MuxHandleByPattern(bp, verb, pattern, handler) ==
    IF pattern \in DOMAIN bp
    THEN [bp EXCEPT ![pattern] = (verb :> handler) @@ bp[pattern]]
    ELSE bp

(***************************************************************************)
(* di.Dispatcher: controllers, bindings, validation.                       *)
(***************************************************************************)
\* A reflect.Method: its name, PkgPath and parameter types, receiver first.
Method(name, in) == [name |-> name, pkgPath |-> "", in |-> in]

CtrlTypes == {"MessageController", "OtherController"}

\* The method set of a controller type.  MessageController is the sample
\* controller of src/domain.go; OtherController is a second controller
\* whose Send takes a request by value and whose List takes its
\* arguments in the wrong order.
MethodSet(t) ==
    IF t = "MessageController"
    THEN {Method("Bindings", <<t>>),
          Method("Send", <<t, "http.ResponseWriter", "*http.Request">>),
          Method("List", <<t, "http.ResponseWriter", "*http.Request">>)}
    ELSE {Method("Bindings", <<t>>),
          Method("Send", <<t, "http.ResponseWriter", "http.Request">>),
          Method("List", <<t, "*http.Request", "http.ResponseWriter">>)}

\* Method names a binding may carry; no type has a method "Missing".
MethodNames == {"Send", "List", "Bindings", "Missing"}

Binding(verb, path, name) == [verb |-> verb, path |-> path, name |-> name]

BindingVerbs == {"GET", "post"}

BindingPaths == {<<"/", "a">>, <<"/", "a", "/">>}

BindingSet == {Binding(v, p, n) : v \in BindingVerbs, p \in BindingPaths, n \in MethodNames}

RECURSIVE BindingLists(_)
BindingLists(n) ==
    IF n = 0 THEN {<<>>}
    ELSE LET shorter == BindingLists(n - 1)
         IN  shorter \cup {Append(s, b) : s \in {t \in shorter : Len(t) = n - 1}, b \in BindingSet}

\* A controller value: its dynamic type and what its Bindings() returns.
Controllers == {[type |-> t, bindings |-> bs] : t \in CtrlTypes, bs \in BindingLists(MaxBindings)}

Labels == {"", "message", "spy"}

\* strings.ToUpper on the verbs of the model.
ToUpper(v) ==
    CASE v = "get" -> "GET"
      [] v = "post" -> "POST"
      [] OTHER -> v

\* reflect.Type.MethodByName: ok is false when the type has no such method.
HasMethod(t, name) == \E m \in MethodSet(t) : m.name = name

MethodByName(t, name) == CHOOSE m \in MethodSet(t) : m.name = name

\* The types that implement http.ResponseWriter.
ResponseWriterTypes == {"http.ResponseWriter", "*httptest.ResponseRecorder"}

\* validate: the error it returns, "" for nil.
validate(meth) ==
    IF meth.pkgPath # "" THEN "not an exported type"
    ELSE IF Len(meth.in) # 3 THEN "wrong number of arguments"
    ELSE IF meth.in[2] \notin ResponseWriterTypes THEN "1st argument type does not implement"
    ELSE IF meth.in[3] # "*http.Request" THEN "2nd argument of wrong type"
    ELSE ""

\* Mutant of adapt: every closure calls the method Send.
adaptSameMethod(ctrlType, as, meth) ==
    [kind |-> "adapter", name |-> "", ctrlType |-> ctrlType, as |-> as, meth |-> "Send"]

\* Dispatcher.adapt: the closure registered for a binding, identified by
\* what it captures.
adapt(ctrlType, as, meth) ==
    [kind |-> "adapter", name |-> "", ctrlType |-> ctrlType, as |-> as, meth |-> meth.name]

\* The error Dispatcher.bind returns before it touches the router, "" if none.
bindError(ctrlType, b) ==
    IF ~HasMethod(ctrlType, b.name) THEN "could not find method"
    ELSE IF validate(MethodByName(ctrlType, b.name)) # "" THEN "error validating"
    ELSE ""

\* Mutant of bind: the route is installed before the method is validated.
bindBeforeValidate(bp, pm, ctrlType, as, b) ==
    IF ~HasMethod(ctrlType, b.name)
    THEN [bp |-> bp, pm |-> pm, result |-> "error", err |-> "could not find method"]
    ELSE LET adapter == adapt(ctrlType, as, MethodByName(ctrlType, b.name))
             verb == ToUpper(b.verb)
         IN  IF MuxHandlePanics(bp, pm, b.path)
             THEN [bp |-> bp, pm |-> pm, result |-> "panic", err |-> "multiple registrations"]
             ELSE [bp |-> MuxHandleByPattern(bp, verb, b.path, adapter),
                   pm |-> MuxHandlePatternMux(bp, pm, verb, b.path, adapter),
                   result |-> IF bindError(ctrlType, b) # "" THEN "error" ELSE "ok",
                   err |-> bindError(ctrlType, b)]

\* Mutant of bind: the verb is stored as the binding spells it.
bindVerbatim(bp, pm, ctrlType, as, b) ==
    LET err == bindError(ctrlType, b)
        adapter == adapt(ctrlType, as, MethodByName(ctrlType, b.name))
    IN  IF err # "" THEN [bp |-> bp, pm |-> pm, result |-> "error", err |-> err]
        ELSE IF MuxHandlePanics(bp, pm, b.path)
        THEN [bp |-> bp, pm |-> pm, result |-> "panic", err |-> "multiple registrations"]
        ELSE [bp |-> MuxHandleByPattern(bp, b.verb, b.path, adapter),
              pm |-> MuxHandlePatternMux(bp, pm, b.verb, b.path, adapter),
              result |-> "ok", err |-> ""]

\* Dispatcher.bind on a Mux in state (bp, pm): the state it leaves and how
\* it ends: "ok", "error" (returned) or "panic" (raised by router.Handle).
bind(bp, pm, ctrlType, as, b) ==
    LET err == bindError(ctrlType, b)
        adapter == adapt(ctrlType, as, MethodByName(ctrlType, b.name))
        verb == ToUpper(b.verb)
    IN  IF err # "" THEN [bp |-> bp, pm |-> pm, result |-> "error", err |-> err]
        ELSE IF MuxHandlePanics(bp, pm, b.path)
        THEN [bp |-> bp, pm |-> pm, result |-> "panic", err |-> "multiple registrations"]
        ELSE [bp |-> MuxHandleByPattern(bp, verb, b.path, adapter),
              pm |-> MuxHandlePatternMux(bp, pm, verb, b.path, adapter),
              result |-> "ok", err |-> ""]

\* Mutant of RegisterLoop: a binding that fails validation is skipped and
\* the error is returned after the remaining bindings were bound.
RECURSIVE RegisterLoopContinues(_, _, _, _, _, _)
RegisterLoopContinues(bp, pm, ctrlType, as, bindings, i) ==
    IF i > Len(bindings)
    THEN [bp |-> bp, pm |-> pm, result |-> "ok", err |-> "", failedAt |-> 0]
    ELSE LET r == bind(bp, pm, ctrlType, as, bindings[i])
         IN  IF r.result = "panic"
             THEN [bp |-> r.bp, pm |-> r.pm, result |-> r.result, err |-> r.err, failedAt |-> i]
             ELSE LET rest == RegisterLoopContinues(r.bp, r.pm, ctrlType, as, bindings, i + 1)
                  IN  IF r.result = "error"
                      THEN [rest EXCEPT !.result = "error", !.err = r.err, !.failedAt = i]
                      ELSE rest

\* The loop of Dispatcher.Register from binding i on.
RECURSIVE RegisterLoop(_, _, _, _, _, _)
RegisterLoop(bp, pm, ctrlType, as, bindings, i) ==
    IF i > Len(bindings)
    THEN [bp |-> bp, pm |-> pm, result |-> "ok", err |-> "", failedAt |-> 0]
    ELSE LET r == bind(bp, pm, ctrlType, as, bindings[i])
         IN  IF r.result # "ok"
             THEN [bp |-> r.bp, pm |-> r.pm, result |-> r.result, err |-> r.err, failedAt |-> i]
             ELSE RegisterLoop(r.bp, r.pm, ctrlType, as, bindings, i + 1)

\* Mutant of RegisterResult: the label is not checked.
RegisterResultNoLabelCheck(bp, pm, ctrl, as) ==
    IF Len(ctrl.bindings) = 0
    THEN [bp |-> bp, pm |-> pm, result |-> "error", err |-> "returns 0 bindings", failedAt |-> 0]
    ELSE RegisterLoop(bp, pm, ctrl.type, as, ctrl.bindings, 1)

\* Dispatcher.Register(ctrl, as) on a Mux in state (bp, pm).
RegisterResult(bp, pm, ctrl, as) ==
    IF as = ""
    THEN [bp |-> bp, pm |-> pm, result |-> "error", err |-> "argument 'as' cannot be empty",
          failedAt |-> 0]
    ELSE IF Len(ctrl.bindings) = 0
    THEN [bp |-> bp, pm |-> pm, result |-> "error", err |-> "returns 0 bindings", failedAt |-> 0]
    ELSE RegisterLoop(bp, pm, ctrl.type, as, ctrl.bindings, 1)

(***************************************************************************)
(* di.New(name, router, factory).  A router or factory argument is nil or  *)
(* a value; the router value is the Mux of this model.                     *)
(***************************************************************************)
DispatcherNames == {"", "messageService"}

RouterArgs == {"nil", "mux"}

FactoryArgs == {"nil", "factory"}

NoDispatcher == [name |-> "", router |-> "nil", factory |-> "nil"]

\* Mutant of New: the factory argument is not checked.
NewNoFactoryCheck(name, router, factory) ==
    IF name = "" THEN [result |-> "panic", err |-> "argument 'name' cannot be empty",
                       disp |-> NoDispatcher]
    ELSE IF router = "nil" THEN [result |-> "panic", err |-> "argument 'router' cannot be nil",
                                 disp |-> NoDispatcher]
    ELSE [result |-> "ok", err |-> "",
          disp |-> [name |-> name, router |-> router, factory |-> factory]]

\* New: how it ends and the Dispatcher it returns.
New(name, router, factory) ==
    IF name = "" THEN [result |-> "panic", err |-> "argument 'name' cannot be empty",
                       disp |-> NoDispatcher]
    ELSE IF router = "nil" THEN [result |-> "panic", err |-> "argument 'router' cannot be nil",
                                 disp |-> NoDispatcher]
    ELSE IF factory = "nil" THEN [result |-> "panic", err |-> "argument 'factory' cannot be nil",
                                  disp |-> NoDispatcher]
    ELSE [result |-> "ok", err |-> "",
          disp |-> [name |-> name, router |-> router, factory |-> factory]]

(***************************************************************************)
(* The adapter at request time.  The application factory is outside the    *)
(* dispatcher: NewController may panic or return an instance of any type   *)
(* (or nil).  An instance remembers the request its RequestFactory was     *)
(* made With.                                                              *)
(***************************************************************************)
NoRequest == Request("", <<>>)

NoInstance == [type |-> "nil", req |-> NoRequest]

FactoryResults == CtrlTypes \cup {"nil", "panic"}

Event(ev, req, label, meth, rcvr) ==
    [ev |-> ev, req |-> req, label |-> label, meth |-> meth, rcvr |-> rcvr]

\* The request the adapter passes to ApplicationFactory.With.
adapterWithArg(req) == req

\* Mutant of adapterLabel: the controller's type name is passed as the label.
adapterLabelTypeName(h) == h.ctrlType

\* The label the adapter passes to RequestFactory.NewController.
adapterLabel(h) == h.as

\* Mutant of typeMismatch: the type of the instance is not checked.
typeMismatchUnchecked(h, rcvr) == FALSE

\* reflect.TypeOf(rcvr) != ctrlType
typeMismatch(h, rcvr) == rcvr.type # h.ctrlType

\* The closure adapt returns, run for request req when the factory answers
\* fres: how it ends and the calls it makes, in order.
adapterServe(h, req, fres) ==
    LET rcvr  == [type |-> fres, req |-> adapterWithArg(req)]
        calls == <<Event("With", adapterWithArg(req), "", "", NoInstance),
                   Event("NewController", NoRequest, adapterLabel(h), "", NoInstance)>>
    IN  IF fres = "panic" THEN [result |-> "panic", trace |-> calls, inst |-> NoInstance]
        ELSE IF typeMismatch(h, rcvr) THEN [result |-> "panic", trace |-> calls, inst |-> rcvr]
        ELSE [result |-> "ok",
              trace |-> Append(calls, Event("Call", req, "", h.meth, rcvr)),
              inst |-> rcvr]

\* Running the handler the Mux selected.
handlerServe(h, req, fres) ==
    IF h.kind = "adapter" THEN adapterServe(h, req, fres)
    ELSE [result |-> "ok", trace |-> <<>>, inst |-> NoInstance]

(***************************************************************************)
(* Mux.mu, a sync.RWMutex.  w is the goroutine that has passed the inner   *)
(* writer mutex (it holds the write lock, or waits for the readers that    *)
(* were in when it arrived to leave); readers hold the read lock; rwait    *)
(* are RLock callers parked because a writer had arrived before them.      *)
(***************************************************************************)
None == "none"

Goroutines == {"g1", "g2", "g3"}

RWMutex == [w |-> None, readers |-> {}, rwait |-> {}]

\* Lock can pass the inner writer mutex only when no other writer has.
LockMustWait(m) == m.w # None

\* Lock, past the inner mutex: later readers are turned away from now on.
RWMutexLock(m, g) == [m EXCEPT !.w = g]

\* Mutant of WriterMustWait: the writer goes on whoever holds the read lock.
WriterNeverWaits(m) == FALSE

\* The writer goes on when the readers that were in have all left.
WriterMustWait(m) == m.readers # {}

\* Mutant of RLockMustWait: a reader never waits for a writer.
RLockNeverWaits(m) == FALSE

\* RLock parks when a writer holds the lock or waits for it.
RLockMustWait(m) == m.w # None

RWMutexRLock(m, g) ==
    IF RLockMustWait(m)
    THEN [m EXCEPT !.rwait = @ \cup {g}]
    ELSE [m EXCEPT !.readers = @ \cup {g}]

\* Mutant of RWMutexRUnlock: the read lock stays held.
RWMutexRUnlockLeaks(m, g) == m

RWMutexRUnlock(m, g) == [m EXCEPT !.readers = @ \ {g}]

\* Mutant of RWMutexUnlock: the lock stays held.
RWMutexUnlockLeaks(m) == m

\* Unlock hands the lock to every parked reader and frees the writer mutex.
RWMutexUnlock(m) == [w |-> None, readers |-> m.rwait, rwait |-> {}]

\* A goroutine: pc is where it stands, the rest are the arguments and
\* locals of the call it is in.
Idle ==
    [pc |-> "idle", verb |-> "", pattern |-> <<>>, handler |-> NoHandler,
     req |-> NoRequest, out |-> Outcome(NoResponse, NoHandler), result |-> ""]

\* Arguments of the calls goroutines make.
ConcVerbs == {"GET", "POST"}

ConcPatterns == {<<"/">>, <<"/", "a">>}

\* The handler they register: the adapter of MessageController.Send, which
\* ends in a call of Send or in a panic, as the application factory answers.
ConcHandlers ==
    {adapt("MessageController", "message", MethodByName("MessageController", "Send"))}

\* The path they request: served by the pattern "/a", else by the subtree
\* "/", else by none.
ConcPaths == {<<"/", "a">>}

ConcRequests == {Request(v, p) : v \in ConcVerbs, p \in ConcPaths}

\* A handler that calls Handle on the Mux that serves it.
ReentrantHandler ==
    [kind |-> "reentrant", name |-> "r1", ctrlType |-> "", as |-> "", meth |-> ""]

(***************************************************************************)
(* The sample application (src/domain.go, src/infra.go): messages, their   *)
(* JSON form, the transports and the handlers of MessageController.        *)
(*                                                                         *)
(* A JSON document is a record: an object is its members in order, an      *)
(* array of objects its elements in order.  A request body can also be     *)
(* text that is no JSON, or a reader that fails.  A response body is the   *)
(* sequence of documents written to it.                                    *)
(***************************************************************************)
StatusOK == 200
StatusInternalServerError == 500

\* infra.go: DSTransport.List returns the first 10 messages.
PageSize == 10

APIPath == <<"/", "a", "p", "i", "/", "m", "e", "s", "s", "a", "g", "e", "s">>

SpyPath == <<"/", "s", "p", "y", "/", "m", "e", "s", "s", "a", "g", "e", "s">>

Message(from, to, message) == [From |-> from, To |-> to, Message |-> message]

ZeroMessage == Message("", "", "")

Messages == {Message("kkrs", "world", "hello"), Message("world", "kkrs", "hi")}

JSON(kind, obj, arr) == [kind |-> kind, obj |-> obj, arr |-> arr]

JSONObject(members) == JSON("object", members, <<>>)

JSONArray(elems) == JSON("array", <<>>, elems)

JSONNull == JSON("null", <<>>, <<>>)

NotJSON == JSON("malformed", <<>>, <<>>)

FailingReader == JSON("unreadable", <<>>, <<>>)

\* json.Marshal of a Message: its exported fields under their Go names.
MarshalMessage(m) == <<<<"From", m.From>>, <<"To", m.To>>, <<"Message", m.Message>>>>

\* json.Marshal of a []Message: null for a nil slice.
MarshalMessages(ms, isNil) ==
    IF isNil THEN JSONNull
    ELSE JSONArray([i \in 1..Len(ms) |-> MarshalMessage(ms[i])])

\* encoding/json matches an object key to a field name ignoring case.
FoldCase(k) ==
    CASE k = "From" -> "from"
      [] k = "To" -> "to"
      [] k = "Message" -> "message"
      [] OTHER -> k

\* The value the decoder leaves in a field: that of the last member whose
\* key matches, or the zero value.
RECURSIVE FieldValue(_, _, _)
FieldValue(members, field, zero) ==
    IF members = <<>> THEN zero
    ELSE LET m == members[Len(members)]
         IN  IF FoldCase(m[1]) = FoldCase(field) THEN m[2]
             ELSE FieldValue(SubSeq(members, 1, Len(members) - 1), field, zero)

DecodeMessage(members) ==
    Message(FieldValue(members, "From", ""), FieldValue(members, "To", ""),
            FieldValue(members, "Message", ""))

\* Unmarshal(body, &msg) of domain.go into a zero Message: the error ("" for
\* nil) and the Message afterwards.
Unmarshal(body) ==
    CASE body.kind = "unreadable" -> [err |-> "read failed", msg |-> ZeroMessage]
      [] body.kind = "malformed" -> [err |-> "invalid character", msg |-> ZeroMessage]
      [] body.kind = "array" -> [err |-> "cannot unmarshal array", msg |-> ZeroMessage]
      [] body.kind = "null" -> [err |-> "", msg |-> ZeroMessage]
      [] OTHER -> [err |-> "", msg |-> DecodeMessage(body.obj)]

\* Request bodies: the two messages as json.Marshal writes them, the first
\* also with lower-case keys, text that is no JSON, and a failing reader.
Bodies ==
    {JSONObject(MarshalMessage(m)) : m \in Messages}
        \cup {JSONObject(<<<<"from", "kkrs">>, <<"to", "world">>, <<"message", "hello">>>>),
              NotJSON, FailingReader}

\* A response as the client sees it: status 0 until the header is written.
NoReply == [status |-> NoResponse, body |-> <<>>]

\* http.ResponseWriter.WriteHeader: the first status written stays.
WriteHeader(rw, status) ==
    IF rw.status = NoResponse THEN [rw EXCEPT !.status = status] ELSE rw

\* http.ResponseWriter.Write: writes the header 200 if none was written.
Write(rw, doc) ==
    [WriteHeader(rw, StatusOK) EXCEPT !.body = Append(@, doc)]

\* The error envelope {"error": "<text>"}.
Envelope(text) == JSONObject(<<<<"error", text>>>>)

\* HTTPError(rw, status, err): http.Error writes the status and the envelope.
HTTPError(rw, status, text) == Write(WriteHeader(rw, status), Envelope(text))

\* AppFactory.Env values for which ReqFactory.newTransport makes a
\* Transport: "int" the ListTransport singleton, "e2e" a DSTransport.
Envs == {"int", "e2e"}

\* ReqFactory.NewController(label): the type of the controller it makes,
\* or a panic for a label it does not know.
ReqFactoryNewController(label) ==
    IF label = "message" THEN "MessageController" ELSE "panic"

\* The controller and the label TestSend hands to Setup.
MessageControllerBindings ==
    <<Binding("POST", APIPath, "Send"), Binding("GET", SpyPath, "List")>>

\* Setup(af, regs) for the one registration {MessageController{}, "message"}:
\* the routing table of the router it returns.
Setup ==
    RegisterResult(EmptyMap, [x \in {} |-> EmptyMap],
                   [type |-> "MessageController", bindings |-> MessageControllerBindings],
                   "message")

\* What the router does with a request: the status it answers itself, or
\* the controller method its adapter calls ("" if the adapter panics).
Dispatch(pm, req) ==
    LET out == patternMuxServeHTTP(pm, req)
        run == handlerServe(out.handler, req, ReqFactoryNewController(adapterLabel(out.handler)))
    IN  IF out.handler.kind # "adapter" THEN [status |-> out.status, meth |-> ""]
        ELSE IF run.result # "ok" THEN [status |-> NoResponse, meth |-> ""]
        ELSE [status |-> NoResponse, meth |-> run.trace[3].meth]

\* Mutant of ListTransportAppend: the new message is put first.
ListTransportPrepend(seen, msg) == <<msg>> \o seen

\* ListTransport.Send: append(tr.msgs, msg), for the tr.msgs it has read.
ListTransportAppend(seen, msg) == Append(seen, msg)

\* ListTransport.List / DSTransport.List on the stored messages.
TransportList(e, stored) ==
    IF e = "int" THEN stored
    ELSE SubSeq(stored, 1, IF Len(stored) < PageSize THEN Len(stored) ELSE PageSize)

\* MessageController.Send up to the call of Transport.Send: the response
\* so far and the message passed on (the zero Message after a failure).
SendDecode(body) ==
    LET u == Unmarshal(body)
    IN  [rw  |-> IF u.err # ""
                 THEN HTTPError(NoReply, StatusInternalServerError, "error reading request")
                 ELSE NoReply,
         msg |-> u.msg,
         err |-> u.err]

\* MessageController.Send after Transport.Send returned err.
SendFinish(rw, err) ==
    WriteHeader(IF err # ""
                THEN HTTPError(rw, StatusInternalServerError, "error sending message")
                ELSE rw,
                StatusOK)

\* MessageController.List, given what Transport.List returned.
ListReply(e, stored, err) ==
    IF err # ""
    THEN HTTPError(NoReply, StatusInternalServerError, "error getting messages")
    ELSE Write(WriteHeader(NoReply, StatusOK),
               MarshalMessages(TransportList(e, stored), e = "int" /\ stored = <<>>))

\* The test client's decoding of a response body into a []Message: the
\* error ("" for nil) and the list.
UnmarshalMessages(body) ==
    IF Len(body) # 1 THEN [err |-> "not one JSON value", list |-> <<>>]
    ELSE CASE body[1].kind = "null" -> [err |-> "", list |-> <<>>]
           [] body[1].kind = "array" ->
                  [err |-> "",
                   list |-> [i \in 1..Len(body[1].arr) |-> DecodeMessage(body[1].arr[i])]]
           [] OTHER -> [err |-> "cannot unmarshal", list |-> <<>>]

\* A client between requests, and the clients.
IdleClient ==
    [pc |-> "idle", rw |-> NoReply, msg |-> ZeroMessage, seen |-> <<>>, err |-> "",
     decoded |-> FALSE]

Clients == {"c1", "c2"}

\* What has been sent so far: the messages of the POSTs answered 200 in
\* the order of the answers, how many POSTs were made, whether each was
\* answered 200, and whether two of them were ever under way at once.
NoHistory == [sent |-> <<>>, posts |-> 0, allOK |-> TRUE, overlapped |-> FALSE]

\* No GET answered since the last POST was made.
NoGet == [status |-> NoResponse, body |-> <<>>, quiet |-> FALSE]

(***************************************************************************)
(* State.                                                                  *)
(***************************************************************************)
VARIABLES
    byPattern,   \* Mux.byPattern
    patternMux,  \* Mux.patternMux: registered pattern -> verbMux
    last,        \* the call that has just completed: its arguments and its
                 \* result, until the caller takes them (NoLast then)
    before,      \* patternMux as it was when that call started
    mu,          \* Mux.mu, the sync.RWMutex guarding the table
    goroutines,  \* the call each goroutine is making and where it stands in it
    calls,       \* number of calls goroutines have started
    env,         \* AppFactory.Env of the sample application
    msgs,        \* the messages its transport holds (ListTransport.msgs)
    clients,     \* the request each client has under way, and its response
    hist,        \* what the clients have sent so far
    got          \* the response to the last GET, until the next POST

vars == <<byPattern, patternMux, last, before, mu, goroutines, calls,
          env, msgs, clients, hist, got>>

\* What the Mux and the Dispatcher leave alone.
appVars == <<env, msgs, clients, hist, got>>

\* What the calls made one at a time leave alone.
concVars == <<mu, goroutines, calls>>

NoLast ==
    [op |-> "none", verb |-> "", pattern |-> <<>>, handler |-> NoHandler,
     ctrl |-> "", as |-> "", bindings |-> <<>>,
     req |-> NoRequest, fres |-> "", result |-> "", err |-> "", failedAt |-> 0,
     status |-> NoResponse, invoked |-> NoHandler, trace |-> <<>>, inst |-> NoInstance,
     name |-> "", router |-> "nil", factory |-> "nil", disp |-> NoDispatcher]

\* router.New
Init ==
    /\ byPattern = EmptyMap
    /\ patternMux = [x \in {} |-> EmptyMap]
    /\ last = NoLast
    /\ before = [x \in {} |-> EmptyMap]
    /\ mu = RWMutex
    /\ goroutines = [g \in Goroutines |-> Idle]
    /\ calls = 0
    /\ env = "int"
    /\ msgs = <<>>
    /\ clients = [c \in Clients |-> IdleClient]
    /\ hist = NoHistory
    /\ got = NoGet

(***************************************************************************)
(* Mux.Handle(verb, pattern, handler), called directly.                    *)
(***************************************************************************)
Handle(verb, pattern, handler) ==
    LET panics == MuxHandlePanics(byPattern, patternMux, pattern)
    IN  /\ last = NoLast
        /\ patternMux' = IF panics THEN patternMux
                         ELSE MuxHandlePatternMux(byPattern, patternMux, verb, pattern, handler)
        /\ byPattern' = IF panics THEN byPattern
                        ELSE MuxHandleByPattern(byPattern, verb, pattern, handler)
        /\ before' = patternMux
        /\ last' = [NoLast EXCEPT !.op = "Handle", !.verb = verb, !.pattern = pattern,
                                  !.handler = handler,
                                  !.result = IF panics THEN "panic" ELSE "ok"]
        /\ UNCHANGED concVars
        /\ UNCHANGED appVars

(***************************************************************************)
(* Mux.ServeHTTP(rw, req); fres is what the application factory answers    *)
(* if an adapter asks it.                                                  *)
(***************************************************************************)
ServeHTTP(req, fres) ==
    LET out == patternMuxServeHTTP(patternMux, req)
        run == handlerServe(out.handler, req, fres)
    IN  /\ last = NoLast
        /\ last' = [NoLast EXCEPT !.op = "ServeHTTP", !.req = req,
                                  !.fres = IF out.handler.kind = "adapter" THEN fres ELSE "",
                                  !.status = out.status, !.invoked = out.handler,
                                  !.result = run.result, !.trace = run.trace,
                                  !.inst = run.inst]
        /\ before' = patternMux
        /\ UNCHANGED <<byPattern, patternMux>>
        /\ UNCHANGED concVars
        /\ UNCHANGED appVars

(***************************************************************************)
(* Dispatcher.Register(ctrl, as).                                          *)
(***************************************************************************)
Register(ctrl, as) ==
    LET r == RegisterResult(byPattern, patternMux, ctrl, as)
    IN  /\ last = NoLast
        /\ patternMux' = r.pm
        /\ byPattern' = r.bp
        /\ before' = patternMux
        /\ last' = [NoLast EXCEPT !.op = "Register", !.ctrl = ctrl.type, !.as = as,
                                  !.bindings = ctrl.bindings, !.result = r.result,
                                  !.err = r.err, !.failedAt = r.failedAt]
        /\ UNCHANGED concVars
        /\ UNCHANGED appVars

(***************************************************************************)
(* di.New(name, router, factory), called with the Mux or nil as router.    *)
(***************************************************************************)
CallNew(name, router, factory) ==
    LET r == New(name, router, factory)
    IN  /\ last = NoLast
        /\ last' = [NoLast EXCEPT !.op = "New", !.name = name, !.router = router,
                                  !.factory = factory, !.result = r.result,
                                  !.err = r.err, !.disp = r.disp]
        /\ before' = patternMux
        /\ UNCHANGED <<byPattern, patternMux>>
        /\ UNCHANGED concVars
        /\ UNCHANGED appVars

(***************************************************************************)
(* The caller takes the result of the completed call; the Mux is not       *)
(* touched.                                                                *)
(***************************************************************************)
Return ==
    /\ last # NoLast
    /\ last' = NoLast
    /\ before' = [x \in {} |-> EmptyMap]
    /\ UNCHANGED <<byPattern, patternMux>>
    /\ UNCHANGED concVars
    /\ UNCHANGED appVars

(***************************************************************************)
(* Spec: a Mux used directly (Handle and ServeHTTP with opaque handlers).  *)
(***************************************************************************)
Next ==
    \/ last = NoLast /\ \E v \in Verbs, p \in Patterns, h \in FuncHandlers : Handle(v, p, h)
    \/ last = NoLast /\ \E r \in Requests : ServeHTTP(r, "nil")
    \/ Return

Spec == Init /\ [][Next]_vars

(***************************************************************************)
(* SpecDi: a Mux owned by a Dispatcher (Register and ServeHTTP).           *)
(***************************************************************************)
NextDi ==
    \/ last = NoLast /\ \E c \in Controllers, l \in Labels : Register(c, l)
    \/ last = NoLast /\ \E r \in Requests, f \in FactoryResults : ServeHTTP(r, f)
    \/ last = NoLast /\ \E n \in DispatcherNames, r \in RouterArgs, f \in FactoryArgs :
           CallNew(n, r, f)
    \/ Return

SpecDi == Init /\ [][NextDi]_vars

(***************************************************************************)
(* Mux.Handle and Mux.ServeHTTP called from several goroutines, statement  *)
(* by statement.  A panic unwinds through the deferred Unlock / RUnlock.   *)
(* patternMux (an http.ServeMux) has a lock of its own, always taken and   *)
(* released inside Mux.mu, so a call on it is one step.                    *)
(***************************************************************************)
\* A goroutine calls Mux.Handle(verb, pattern, handler).
CallHandle(g, verb, pattern, handler) ==
    /\ goroutines[g].pc = "idle"
    /\ calls < MaxCalls
    /\ calls' = calls + 1
    /\ goroutines' = [goroutines EXCEPT ![g] =
           [Idle EXCEPT !.pc = "Lock", !.verb = verb, !.pattern = pattern,
                        !.handler = handler]]
    /\ UNCHANGED <<byPattern, patternMux, last, before, mu>>
    /\ UNCHANGED appVars

\* m.mu.Lock(): passing the inner writer mutex.
Lock(g) ==
    /\ goroutines[g].pc = "Lock"
    /\ ~LockMustWait(mu)
    /\ mu' = RWMutexLock(mu, g)
    /\ goroutines' = [goroutines EXCEPT ![g].pc =
           IF WriterMustWait(mu) THEN "LockWait" ELSE "register"]
    /\ UNCHANGED <<byPattern, patternMux, last, before, calls>>
    /\ UNCHANGED appVars

\* m.mu.Lock(): waiting for the readers to leave.
LockWait(g) ==
    /\ goroutines[g].pc = "LockWait"
    /\ ~WriterMustWait(mu)
    /\ goroutines' = [goroutines EXCEPT ![g].pc = "register"]
    /\ UNCHANGED <<byPattern, patternMux, last, before, mu, calls>>
    /\ UNCHANGED appVars

\* h := m.byPattern[pattern]; if h == nil { h = make(...);
\* m.patternMux.Handle(pattern, h) }
HandleRegister(g) ==
    LET c == goroutines[g]
    IN  /\ c.pc = "register"
        /\ IF MuxHandlePanics(byPattern, patternMux, c.pattern)
           THEN /\ goroutines' = [goroutines EXCEPT ![g].pc = "Unlock",
                                                    ![g].result = "panic"]
                /\ UNCHANGED patternMux
           ELSE /\ goroutines' = [goroutines EXCEPT ![g].pc = "store"]
                /\ patternMux' = IF c.pattern \in DOMAIN byPattern THEN patternMux
                                 ELSE ServeMuxHandle(patternMux, c.pattern,
                                                     HandleVerbMux(byPattern, c.pattern))
        /\ UNCHANGED <<byPattern, last, before, mu, calls>>
        /\ UNCHANGED appVars

\* h[verb] = handler
HandleStore(g) ==
    LET c == goroutines[g]
    IN  /\ c.pc = "store"
        /\ patternMux' = IF c.pattern \in DOMAIN patternMux
                         THEN [patternMux EXCEPT ![c.pattern] = (c.verb :> c.handler) @@ @]
                         ELSE patternMux
        /\ byPattern' = MuxHandleByPattern(byPattern, c.verb, c.pattern, c.handler)
        /\ goroutines' = [goroutines EXCEPT ![g].pc = "Unlock", ![g].result = "ok"]
        /\ UNCHANGED <<last, before, mu, calls>>
        /\ UNCHANGED appVars

\* defer m.mu.Unlock(), and Handle is over: the goroutine is idle again,
\* or back in the handler that made the call, which ends as the call did.
Unlock(g) ==
    LET c == goroutines[g]
    IN  /\ c.pc = "Unlock"
        /\ mu' = RWMutexUnlock(mu)
        /\ goroutines' = [goroutines EXCEPT ![g] =
               IF c.req = NoRequest THEN Idle
               ELSE [Idle EXCEPT !.pc = "RUnlock", !.req = c.req, !.out = c.out,
                                 !.result = c.result]]
    /\ UNCHANGED <<byPattern, patternMux, last, before, calls>>
    /\ UNCHANGED appVars

\* A goroutine calls Mux.ServeHTTP(w, req).
CallServeHTTP(g, req) ==
    /\ goroutines[g].pc = "idle"
    /\ calls < MaxCalls
    /\ calls' = calls + 1
    /\ goroutines' = [goroutines EXCEPT ![g] = [Idle EXCEPT !.pc = "RLock", !.req = req]]
    /\ UNCHANGED <<byPattern, patternMux, last, before, mu>>
    /\ UNCHANGED appVars

\* m.mu.RLock()
RLock(g) ==
    /\ goroutines[g].pc = "RLock"
    /\ mu' = RWMutexRLock(mu, g)
    /\ goroutines' = [goroutines EXCEPT ![g].pc =
           IF RLockMustWait(mu) THEN "RLockWait" ELSE "route"]
    /\ UNCHANGED <<byPattern, patternMux, last, before, calls>>
    /\ UNCHANGED appVars

\* m.mu.RLock(): parked until a writer's Unlock lets the reader in.
RLockWait(g) ==
    /\ goroutines[g].pc = "RLockWait"
    /\ g \in mu.readers
    /\ goroutines' = [goroutines EXCEPT ![g].pc = "route"]
    /\ UNCHANGED <<byPattern, patternMux, last, before, mu, calls>>
    /\ UNCHANGED appVars

\* m.patternMux.ServeHTTP(w, req) up to the handler the verbMux selects:
\* the read of the pattern table and of the verb table.
Route(g) ==
    LET c   == goroutines[g]
        out == patternMuxServeHTTP(patternMux, c.req)
    IN  /\ c.pc = "route"
        /\ goroutines' = [goroutines EXCEPT
               ![g].out = out,
               ![g].pc = IF out.handler = NoHandler THEN "RUnlock" ELSE "handler",
               ![g].result = IF out.handler = NoHandler THEN "ok" ELSE ""]
        /\ UNCHANGED <<byPattern, patternMux, last, before, mu, calls>>
        /\ UNCHANGED appVars

\* h.ServeHTTP(w, req): the selected handler runs, the read lock held; fres
\* is what the application factory answers if an adapter asks it.
RunHandler(g, fres) ==
    LET c == goroutines[g]
    IN  /\ c.pc = "handler"
        /\ c.out.handler.kind # "reentrant"
        /\ goroutines' = [goroutines EXCEPT
               ![g].pc = "RUnlock",
               ![g].result = handlerServe(c.out.handler, c.req, fres).result]
        /\ UNCHANGED <<byPattern, patternMux, last, before, mu, calls>>
        /\ UNCHANGED appVars

\* h.ServeHTTP(w, req) for a handler that calls m.Handle(verb, pattern,
\* handler): the goroutine enters Handle with ServeHTTP's read lock held.
HandlerCallsHandle(g, verb, pattern, handler) ==
    LET c == goroutines[g]
    IN  /\ c.pc = "handler"
        /\ c.out.handler.kind = "reentrant"
        /\ goroutines' = [goroutines EXCEPT
               ![g].pc = "Lock", ![g].verb = verb, ![g].pattern = pattern,
               ![g].handler = handler]
        /\ UNCHANGED <<byPattern, patternMux, last, before, mu, calls>>
        /\ UNCHANGED appVars

\* defer m.mu.RUnlock(), and ServeHTTP is over.
RUnlock(g) ==
    /\ goroutines[g].pc = "RUnlock"
    /\ mu' = RWMutexRUnlock(mu, g)
    /\ goroutines' = [goroutines EXCEPT ![g] = Idle]
    /\ UNCHANGED <<byPattern, patternMux, last, before, calls>>
    /\ UNCHANGED appVars

\* The steps of a call under way.
Step(g) ==
    \/ Lock(g)
    \/ LockWait(g)
    \/ HandleRegister(g)
    \/ HandleStore(g)
    \/ Unlock(g)
    \/ RLock(g)
    \/ RLockWait(g)
    \/ Route(g)
    \/ \E f \in CtrlTypes : RunHandler(g, f)
    \/ RUnlock(g)

(***************************************************************************)
(* SpecConc: goroutines calling Handle and ServeHTTP on one Mux.           *)
(***************************************************************************)
NextConc ==
    \/ \E g \in Goroutines, v \in ConcVerbs, p \in ConcPatterns, h \in ConcHandlers :
           CallHandle(g, v, p, h)
    \/ \E g \in Goroutines, r \in ConcRequests : CallServeHTTP(g, r)
    \/ \E g \in Goroutines : Step(g)

SpecConc == Init /\ [][NextConc]_vars

\* The scheduler runs every goroutine that can take a step.
FairSpecConc == SpecConc /\ \A g \in Goroutines : WF_vars(Step(g))

(***************************************************************************)
(* SpecReentrant: as SpecConc, with handlers that call Handle on the Mux.  *)
(***************************************************************************)
NextReentrant ==
    \/ NextConc
    \/ \E g \in Goroutines, v \in ConcVerbs, p \in ConcPatterns :
           CallHandle(g, v, p, ReentrantHandler)
    \/ \E g \in Goroutines, v \in ConcVerbs, p \in ConcPatterns, h \in ConcHandlers :
           HandlerCallsHandle(g, v, p, h)

SpecReentrant == Init /\ [][NextReentrant]_vars

(***************************************************************************)
(* SpecApp: clients of the server TestSend starts.  The router Setup made  *)
(* serves each request on a goroutine of its own; handlers run under the   *)
(* Mux's read lock, which readers share, so MessageController.Send runs    *)
(* for several requests at once.  ListTransport.Send reads tr.msgs and     *)
(* assigns it without a lock of its own: the read and the assignment are   *)
(* two steps.  A DSTransport call is one step that may fail.               *)
(***************************************************************************)
\* Clients with a POST under way.
Posting == {c \in Clients : clients[c].pc \in {"send", "append", "finish"}}

InitApp ==
    /\ byPattern = Setup.bp
    /\ patternMux = Setup.pm
    /\ last = NoLast
    /\ before = [x \in {} |-> EmptyMap]
    /\ mu = RWMutex
    /\ goroutines = [g \in Goroutines |-> Idle]
    /\ calls = 0
    /\ env \in Envs
    /\ msgs = <<>>
    /\ clients = [c \in Clients |-> IdleClient]
    /\ hist = NoHistory
    /\ got = NoGet

\* POST /api/messages with the given body, up to the call of
\* Transport.Send.
Post(c, body) ==
    LET d == Dispatch(patternMux, Request("POST", APIPath))
        s == SendDecode(body)
    IN  /\ clients[c].pc \in {"idle", "done"}
        /\ hist.posts < MaxPosts
        /\ clients' = [clients EXCEPT ![c] =
               IF d.meth = "Send"
               THEN [IdleClient EXCEPT !.pc = "send", !.rw = s.rw, !.msg = s.msg,
                                       !.decoded = (s.err = "")]
               ELSE [IdleClient EXCEPT !.pc = "done",
                                       !.rw = WriteHeader(NoReply, d.status)]]
        /\ hist' = [hist EXCEPT !.posts = @ + 1,
                                !.overlapped = @ \/ Posting # {},
                                !.allOK = @ /\ d.meth = "Send"]
        /\ got' = NoGet
        /\ UNCHANGED <<byPattern, patternMux, last, before, env, msgs>>
        /\ UNCHANGED concVars

\* ListTransport.Send: tr.msgs is read.
ListTransportSendRead(c) ==
    /\ clients[c].pc = "send"
    /\ env = "int"
    /\ clients' = [clients EXCEPT ![c].pc = "append", ![c].seen = msgs]
    /\ UNCHANGED <<byPattern, patternMux, last, before, env, msgs, hist, got>>
    /\ UNCHANGED concVars

\* ListTransport.Send: tr.msgs is assigned the appended slice.
ListTransportSendWrite(c) ==
    /\ clients[c].pc = "append"
    /\ msgs' = ListTransportAppend(clients[c].seen, clients[c].msg)
    /\ clients' = [clients EXCEPT ![c].pc = "finish", ![c].seen = <<>>]
    /\ UNCHANGED <<byPattern, patternMux, last, before, env, hist, got>>
    /\ UNCHANGED concVars

\* DSTransport.Send: datastore.Put stores the message or fails.
DSTransportSend(c, ok) ==
    /\ clients[c].pc = "send"
    /\ env = "e2e"
    /\ msgs' = IF ok THEN Append(msgs, clients[c].msg) ELSE msgs
    /\ clients' = [clients EXCEPT ![c].pc = "finish",
                                  ![c].err = IF ok THEN "" ELSE "datastore"]
    /\ UNCHANGED <<byPattern, patternMux, last, before, env, hist, got>>
    /\ UNCHANGED concVars

\* MessageController.Send after Transport.Send: the response is complete.
PostDone(c) ==
    LET rw == SendFinish(clients[c].rw, clients[c].err)
    IN  /\ clients[c].pc = "finish"
        /\ clients' = [clients EXCEPT ![c].pc = "done", ![c].rw = rw]
        /\ hist' = [hist EXCEPT
               !.sent = IF rw.status = StatusOK THEN Append(@, clients[c].msg) ELSE @,
               !.allOK = @ /\ rw.status = StatusOK]
        /\ UNCHANGED <<byPattern, patternMux, last, before, env, msgs, got>>
        /\ UNCHANGED concVars

\* GET /spy/messages: MessageController.List; a DSTransport query may fail.
Get(ok) ==
    LET d  == Dispatch(patternMux, Request("GET", SpyPath))
        rw == IF d.meth = "List"
              THEN ListReply(env, msgs, IF ok THEN "" ELSE "datastore")
              ELSE WriteHeader(NoReply, d.status)
    IN  /\ ok \/ env = "e2e"
        /\ got' = [status |-> rw.status, body |-> rw.body, quiet |-> Posting = {}]
        /\ UNCHANGED <<byPattern, patternMux, last, before, env, msgs, clients, hist>>
        /\ UNCHANGED concVars

NextApp ==
    \/ \E c \in Clients, b \in Bodies : Post(c, b)
    \/ \E c \in Clients : ListTransportSendRead(c)
    \/ \E c \in Clients : ListTransportSendWrite(c)
    \/ \E c \in Clients, ok \in BOOLEAN : DSTransportSend(c, ok)
    \/ \E c \in Clients : PostDone(c)
    \/ \E ok \in BOOLEAN : Get(ok)

SpecApp == InitApp /\ [][NextApp]_vars

(***************************************************************************)
(* Properties of the Mux used directly (Spec).                             *)
(***************************************************************************)
\* The handler a request with verb v and path p reaches (NoHandler if none).
Delivered(pm, v, p) == patternMuxServeHTTP(pm, Request(v, p)).handler

\* The <<pattern, verb>> pairs a table routes.
Routes(pm) == UNION {{<<p, v>> : v \in DOMAIN pm[p]} : p \in DOMAIN pm}

\* C1: re-registering a (verb, pattern) pair that already has a handler
\* does not panic, and afterwards a request with that verb and path reaches
\* the handler passed last.
C1_ReRegistrationOverwrites ==
    (/\ last.op = "Handle"
     /\ last.pattern \in DOMAIN before
     /\ last.verb \in DOMAIN before[last.pattern])
        => /\ last.result = "ok"
           /\ Delivered(patternMux, last.verb, last.pattern) = last.handler

\* A path ServeMux answers with a redirect whatever is registered for it.
Redirected(pm, path) == cleanPath(path) # path \/ RedirectsToSlash(pm, path)

\* The 404 / 405 contract for the request just served, given that its path
\* satisfies applies.
NotFoundVsNotAllowed(applies) ==
    (last.op = "ServeHTTP" /\ applies)
        => /\ Matching(before, last.req.path) = {}
                => last.status = StatusNotFound /\ last.invoked = NoHandler
           /\ (/\ Matching(before, last.req.path) # {}
               /\ last.req.verb \notin DOMAIN before[LongestMatch(before, last.req.path)])
                => last.status = StatusMethodNotAllowed /\ last.invoked = NoHandler

C3_SecondVerbOnPattern ==
    (/\ last.op = "Handle"
     /\ last.pattern \in DOMAIN before
     /\ last.verb \notin DOMAIN before[last.pattern])
        => /\ last.result = "ok"
           /\ Delivered(patternMux, last.verb, last.pattern) = last.handler
           /\ \A v \in DOMAIN before[last.pattern] :
                  Delivered(patternMux, v, last.pattern) = before[last.pattern][v]

(***************************************************************************)
(* Properties of the Dispatcher (SpecDi).                                  *)
(***************************************************************************)
\* Type t has a method of that name taking exactly a response writer and
\* a request.
TakesWriterAndRequest(t, name) ==
    \E m \in MethodSet(t) :
        /\ m.name = name
        /\ Len(m.in) = 3
        /\ m.in[2] \in ResponseWriterTypes
        /\ m.in[3] = "*http.Request"

\* The route a binding asks for and the adapter the last Register call
\* builds for it.
RouteOf(b) == <<b.path, ToUpper(b.verb)>>

AdapterOf(b) ==
    [kind |-> "adapter", name |-> "", ctrlType |-> last.ctrl, as |-> last.as, meth |-> b.name]

\* The last call was Register with a label, and a non-empty binding list
\* that holds a binding satisfying bad (a predicate on binding indices).
InvalidAt(i) == ~TakesWriterAndRequest(last.ctrl, last.bindings[i].name)

MissingAt(i) == \A m \in MethodSet(last.ctrl) : m.name # last.bindings[i].name

FirstInvalid ==
    CHOOSE k \in DOMAIN last.bindings :
        InvalidAt(k) /\ \A j \in 1..(k - 1) : ~InvalidAt(j)

\* The last Register call installed exactly the routes of its first n
\* bindings, each with that binding's adapter, and changed no other route.
InstalledExactly(n) ==
    /\ \A i \in 1..n :
           /\ RouteOf(last.bindings[i]) \in Routes(patternMux) \ Routes(before)
           /\ patternMux[last.bindings[i].path][ToUpper(last.bindings[i].verb)]
                  = AdapterOf(last.bindings[i])
    /\ \A r \in Routes(patternMux) \ Routes(before) :
           \E i \in 1..n : r = RouteOf(last.bindings[i])
    /\ \A r \in Routes(before) :
           r \in Routes(patternMux) /\ patternMux[r[1]][r[2]] = before[r[1]][r[2]]

C5_Original ==
    (/\ last.op = "Register"
     /\ last.as # ""
     /\ \E i \in DOMAIN last.bindings : MissingAt(i))
        => /\ last.result = "error"
           /\ Routes(patternMux) = Routes(before)

\* C5 as amended: such a call does not succeed; it stops at the first
\* binding that fails, no later than the one naming the missing method;
\* the routes of the bindings before that one are installed and stay, no
\* other route is added, so the call leaves zero routes only when it stops
\* at its first binding.
C5_FailedRegisterKeepsEarlierRoutes ==
    (/\ last.op = "Register"
     /\ last.as # ""
     /\ \E i \in DOMAIN last.bindings : MissingAt(i))
        => /\ last.result \in {"error", "panic"}
           /\ last.failedAt \in DOMAIN last.bindings
           /\ last.failedAt <= FirstInvalid
           /\ last.result = "error" <=> last.failedAt = FirstInvalid
           /\ InstalledExactly(last.failedAt - 1)
           /\ last.failedAt = 1 => patternMux = before

\* Register stopped at a second binding naming a missing method, with the
\* first binding's route installed.
C5_Witness ==
    /\ last.op = "Register"
    /\ last.result = "error"
    /\ last.failedAt = 2
    /\ MissingAt(2)
    /\ RouteOf(last.bindings[1]) \in Routes(patternMux) \ Routes(before)

\* C6: Register with an empty label, or for a controller with no bindings,
\* returns an error and leaves the routing table as it was.
C6_EmptyLabelOrBindings ==
    (last.op = "Register" /\ (last.as = "" \/ last.bindings = <<>>))
        => /\ last.result = "error"
           /\ patternMux = before
           /\ byPattern = EmptyMap

\* Register was refused for its empty label although its first binding is
\* valid and asks for a free pattern.
C6_Witness ==
    /\ last.op = "Register"
    /\ last.as = ""
    /\ last.bindings # <<>>
    /\ ~InvalidAt(1)
    /\ last.bindings[1].path \notin DOMAIN before
    /\ last.result = "error"

\* C7: the adapter calls the controller method only on an instance whose
\* type is the type recorded at registration; when the factory returns an
\* instance of another type the adapter panics without calling it.
C7_TypeCheckedBeforeCall ==
    (last.op = "ServeHTTP" /\ last.invoked.kind = "adapter")
        => /\ \A i \in DOMAIN last.trace :
                  last.trace[i].ev = "Call"
                      => last.trace[i].rcvr.type = last.invoked.ctrlType
           /\ (last.fres # "panic" /\ last.fres # last.invoked.ctrlType)
                  => /\ last.result = "panic"
                     /\ \A i \in DOMAIN last.trace : last.trace[i].ev # "Call"

\* The factory answered an adapter with a controller of another type.
C7_Witness ==
    /\ last.op = "ServeHTTP"
    /\ last.invoked.kind = "adapter"
    /\ last.fres \in CtrlTypes
    /\ last.fres # last.invoked.ctrlType
    /\ last.result = "panic"

\* C8: for a request routed to an adapter the calls are, in order, With
\* once with that request, NewController once with the adapter's label
\* and, if the instance has the registered type, the bound method once, on
\* the instance made for that request and with that request; a request
\* that reaches no adapter makes no call.
C8_AdapterCallSequence ==
    last.op = "ServeHTTP"
        => IF last.invoked.kind # "adapter" THEN last.trace = <<>>
           ELSE /\ Len(last.trace) = IF last.fres = last.invoked.ctrlType THEN 3 ELSE 2
                /\ last.trace[1] = Event("With", last.req, "", "", NoInstance)
                /\ last.trace[2] = Event("NewController", NoRequest, last.invoked.as, "", NoInstance)
                /\ last.invoked = Delivered(before, last.req.verb, last.req.path)
                /\ last.invoked.as \in Labels \ {""}
                /\ Len(last.trace) = 3
                       => last.trace[3] = Event("Call", last.req, "", last.invoked.meth,
                                                [type |-> last.invoked.ctrlType, req |-> last.req])

\* A request was routed to an adapter whose method was called.
C8_Witness ==
    /\ last.op = "ServeHTTP"
    /\ last.invoked.kind = "adapter"
    /\ last.result = "ok"
    /\ Len(last.trace) = 3

(***************************************************************************)
(* Properties of the Mux under concurrent calls (SpecConc, FairSpecConc).  *)
(***************************************************************************)
\* Goroutines inside Handle's critical section: between Lock and Unlock.
Writing == {g \in Goroutines : goroutines[g].pc \in {"register", "store", "Unlock"}}

\* Goroutines inside ServeHTTP's critical section: between RLock and RUnlock.
Reading == {g \in Goroutines : goroutines[g].pc \in {"route", "handler", "RUnlock"}}

\* A pattern is registered but its verb table has not received the handler.
PartlyUpdated == \E p \in DOMAIN patternMux : patternMux[p] = EmptyMap

\* C9: under any interleaving of Handle and ServeHTTP calls at most one
\* Handle is writing the routing table at a time, none is writing while a
\* ServeHTTP is reading, and a reading ServeHTTP never finds a table that a
\* Handle has updated in part: what it read is still what the table says
\* for its request for as long as it is in flight.
C9_WritesExcludeReads ==
    /\ Cardinality(Writing) <= 1
    /\ Writing # {} => Reading = {}
    /\ Reading # {} => ~PartlyUpdated
    /\ \A g \in Reading :
           goroutines[g].pc # "route" =>
               goroutines[g].out = patternMuxServeHTTP(patternMux, goroutines[g].req)

\* Two ServeHTTP calls read a non-empty table at once, one of them running
\* a handler, while a Handle call waits for them to leave.
C9_Witness ==
    /\ patternMux # [x \in {} |-> EmptyMap]
    /\ Cardinality(Reading) >= 2
    /\ \E g \in Reading : goroutines[g].pc = "handler"
    /\ \E g \in Goroutines : goroutines[g].pc = "LockWait" /\ mu.w = g

\* C10: in every fair interleaving of Handle and ServeHTTP calls on one
\* Mux, every call that has started is eventually over (it returns, or its
\* panic unwinds out of the Mux).
C10_EveryCallReturns ==
    \A g \in Goroutines : (goroutines[g].pc # "idle") ~> (goroutines[g].pc = "idle")

\* A ServeHTTP call is parked behind a Handle call that waits for another
\* ServeHTTP call to leave.
C10_Witness ==
    \E r1, r2, w \in Goroutines :
        /\ goroutines[r1].pc = "RLockWait"
        /\ goroutines[w].pc = "LockWait"
        /\ goroutines[r2].pc \in {"route", "handler"}
        /\ r1 \in mu.rwait /\ r2 \in mu.readers /\ mu.w = w

(***************************************************************************)
(* Further properties of the Dispatcher (SpecDi).                          *)
(***************************************************************************)
\* C13: the routable (verb, pattern) pairs only grow: no step of the
\* program removes a pair from the routing table or gives it another
\* handler; in particular a Register call that fails leaves every route
\* of an earlier Register call as it was.
C13_RoutesOnlyGrow ==
    [][\A r \in Routes(patternMux) :
           /\ r \in Routes(patternMux')
           /\ patternMux'[r[1]][r[2]] = patternMux[r[1]][r[2]]]_vars

\* A Register call failed at its second binding, and a route that an
\* earlier Register call made for a controller under another label is
\* still there with its adapter.
C13_Witness ==
    /\ last.op = "Register"
    /\ last.result = "error"
    /\ last.failedAt = 2
    /\ \E r \in Routes(before) :
           /\ before[r[1]][r[2]].as # last.as
           /\ r \in Routes(patternMux)
           /\ patternMux[r[1]][r[2]] = before[r[1]][r[2]]

\* What a request for binding b's (verb, path) does on the current table
\* when the factory answers a controller of type t.
ServedFor(b, t) ==
    LET req == Request(ToUpper(b.verb), b.path)
        out == patternMuxServeHTTP(patternMux, req)
    IN  [out |-> out, run |-> handlerServe(out.handler, req, t)]

\* C16: after a successful Register of a controller with several bindings
\* a request for binding i's verb (in upper case) and path reaches an
\* adapter that asks the factory for the label given to that Register call
\* and calls the method binding i names, not the method of another binding.
C16_EachBindingItsOwnMethod ==
    (last.op = "Register" /\ last.result = "ok" /\ Len(last.bindings) >= 2)
        => \A i \in DOMAIN last.bindings :
               LET s == ServedFor(last.bindings[i], last.ctrl)
               IN  /\ s.out.status = NoResponse
                   /\ s.out.handler.kind = "adapter"
                   /\ s.run.result = "ok"
                   /\ Len(s.run.trace) = 3
                   /\ s.run.trace[2].ev = "NewController"
                   /\ s.run.trace[2].label = last.as
                   /\ s.run.trace[3].ev = "Call"
                   /\ s.run.trace[3].meth = last.bindings[i].name
                   /\ s.run.trace[3].rcvr.type = last.ctrl

\* Register succeeded for two bindings that name different methods.
C16_Witness ==
    /\ last.op = "Register"
    /\ last.result = "ok"
    /\ Len(last.bindings) = 2
    /\ last.bindings[1].name # last.bindings[2].name
    /\ ServedFor(last.bindings[1], last.ctrl).run.trace[3].meth = last.bindings[1].name
    /\ ServedFor(last.bindings[2], last.ctrl).run.trace[3].meth = last.bindings[2].name

\* Binding i names a method the controller has, but of the wrong shape.
FailsValidationAt(i) ==
    /\ HasMethod(last.ctrl, last.bindings[i].name)
    /\ validate(MethodByName(last.ctrl, last.bindings[i].name)) # ""

\* The last Register call added no route for a binding after its k-th
\* (other than a route one of its first k - 1 bindings had asked for).
NothingAfter(k) ==
    \A j \in (k + 1)..Len(last.bindings) :
        (\A i \in 1..(k - 1) : RouteOf(last.bindings[i]) # RouteOf(last.bindings[j]))
            => RouteOf(last.bindings[j]) \notin Routes(patternMux) \ Routes(before)

\* C17: when Register comes to a binding k that fails validation it
\* returns an error for binding k at once, and no binding after k in the
\* list is registered in the Mux, even one that would have validated.
C17_StopsAtFailedValidation ==
    \A k \in DOMAIN last.bindings :
        (/\ last.op = "Register"
         /\ last.as # ""
         /\ FailsValidationAt(k)
         /\ \A i \in 1..(k - 1) : ~InvalidAt(i)
         /\ last.result # "panic")
            => /\ last.result = "error"
               /\ last.failedAt = k
               /\ NothingAfter(k)

\* Register stopped at a first binding of the wrong shape; the second
\* binding is valid and asks for a pattern that is free, and has no route.
C17_Witness ==
    /\ last.op = "Register"
    /\ last.result = "error"
    /\ last.failedAt = 1
    /\ Len(last.bindings) = 2
    /\ FailsValidationAt(1)
    /\ TakesWriterAndRequest(last.ctrl, last.bindings[2].name)
    /\ last.bindings[2].path \notin DOMAIN before
    /\ RouteOf(last.bindings[2]) \notin Routes(patternMux)

(***************************************************************************)
(* Further properties of the Mux used directly (Spec).                     *)
(***************************************************************************)
\* C18: when several registered patterns match the path of a request that
\* the Mux does not redirect, the verb is looked up in the verb table of
\* the longest of them and nowhere else: the request runs the handler
\* stored there for its verb, or is answered 405 when there is none, also
\* when a shorter matching pattern has a handler for the verb.
C18_LongestPatternOnly ==
    (/\ last.op = "ServeHTTP"
     /\ ~Redirected(before, last.req.path)
     /\ Cardinality(Matching(before, last.req.path)) >= 2)
        => \E k \in Matching(before, last.req.path) :
               /\ \A j \in Matching(before, last.req.path) : j # k => Len(j) < Len(k)
               /\ IF last.req.verb \in DOMAIN before[k]
                  THEN /\ last.status = NoResponse
                       /\ last.invoked = before[k][last.req.verb]
                  ELSE /\ last.status = StatusMethodNotAllowed
                       /\ last.invoked = NoHandler

\* A request was answered 405 because the longest matching pattern has no
\* handler for its verb, although a shorter matching pattern has one.
C18_Witness ==
    /\ last.op = "ServeHTTP"
    /\ ~Redirected(before, last.req.path)
    /\ last.status = StatusMethodNotAllowed
    /\ \E k, j \in Matching(before, last.req.path) :
           /\ Len(j) < Len(k)
           /\ last.req.verb \notin DOMAIN before[k]
           /\ last.req.verb \in DOMAIN before[j]

(***************************************************************************)
(* Properties of di.New (SpecDi).                                          *)
(***************************************************************************)
\* C15: New with an empty name, a nil router or a nil factory panics and
\* yields no Dispatcher; with all three present it returns a Dispatcher
\* holding them; in neither case is the router touched.
C15_NewFailsFast ==
    last.op = "New"
        => /\ IF last.name = "" \/ last.router = "nil" \/ last.factory = "nil"
              THEN last.result = "panic" /\ last.disp = NoDispatcher
              ELSE /\ last.result = "ok"
                   /\ last.disp = [name |-> last.name, router |-> last.router,
                                   factory |-> last.factory]
           /\ patternMux = before
           /\ byPattern = EmptyMap

\* New panicked for a nil factory alone, on a Mux that already has routes.
C15_Witness ==
    /\ last.op = "New"
    /\ last.name # ""
    /\ last.router = "mux"
    /\ last.factory = "nil"
    /\ last.result = "panic"
    /\ Routes(patternMux) # {}

(***************************************************************************)
(* Further properties of the Mux under concurrent calls.                   *)
(***************************************************************************)
\* ServeHTTP calls in flight: past RLock and not yet past RUnlock, the
\* handler's own calls included.
InFlight ==
    {g \in Goroutines :
        goroutines[g].req # NoRequest /\ goroutines[g].pc \notin {"RLock", "RLockWait"}}

\* Goroutines whose handler has called Handle on the Mux serving it, and
\* has not come back from it.
InNestedHandle ==
    {g \in Goroutines :
        /\ goroutines[g].req # NoRequest
        /\ goroutines[g].pc \in {"Lock", "LockWait", "register", "store", "Unlock"}}

\* C19 (SpecReentrant): a ServeHTTP call in flight holds the read lock
\* from RLock to RUnlock, the handler's run included, and no step changes
\* the routing table while a ServeHTTP call is in flight; a handler that
\* calls Handle on the Mux serving it stays in Lock for ever: it never
\* enters Handle's critical section and never comes back from the call.
C19_HandleWaitsForServeHTTP ==
    /\ [](/\ InFlight \subseteq mu.readers
          /\ \A g \in InNestedHandle : goroutines[g].pc \in {"Lock", "LockWait"})
    /\ [][/\ (patternMux' # patternMux \/ byPattern' # byPattern) => InFlight = {}
          /\ \A g \in InNestedHandle : g \in InNestedHandle']_vars

\* A handler has called Handle and waits in Lock for the readers to leave,
\* itself among them, while another ServeHTTP call is parked behind it.
C19_Witness ==
    \E g, r \in Goroutines :
        /\ g \in InNestedHandle
        /\ goroutines[g].pc = "LockWait"
        /\ mu.w = g
        /\ g \in mu.readers
        /\ goroutines[r].pc = "RLockWait"

\* C20 (SpecConc): a call that panics inside the Mux changes neither
\* table by any of its steps and gives its lock back on the way out: when
\* a panicking Handle leaves, the write lock is free, when a ServeHTTP
\* whose adapter panicked leaves, it holds no read lock, and when no call
\* is under way the lock is as new, so that later calls can take it.
C20_PanicLeaksNothing ==
    /\ []((\A g \in Goroutines : goroutines[g].pc = "idle") => mu = RWMutex)
    /\ [][\A g \in Goroutines :
            LET c == goroutines[g]
                d == goroutines'[g]
            IN  /\ (c # d /\ "panic" \in {c.result, d.result})
                       => patternMux' = patternMux /\ byPattern' = byPattern
                /\ (c.pc = "Unlock" /\ c.result = "panic" /\ c # d)
                       => d.pc = "idle" /\ mu.w = g /\ mu'.w = None
                /\ (c.pc = "RUnlock" /\ c.result = "panic" /\ c # d)
                       => /\ d.pc = "idle"
                          /\ g \in mu.readers
                          /\ g \notin mu'.readers \cup mu'.rwait]_vars

\* A Handle call has panicked and is about to unlock; a ServeHTTP call is
\* parked behind it and needs the lock back to go on.
C20_Witness ==
    \E g, r \in Goroutines :
        /\ goroutines[g].pc = "Unlock"
        /\ goroutines[g].result = "panic"
        /\ goroutines[r].pc = "RLockWait"
        /\ r \in mu.rwait

(***************************************************************************)
(* Properties of the sample application (SpecApp).                         *)
(***************************************************************************)
\* How often m occurs in the sequence ms.
Count(ms, m) == Cardinality({i \in DOMAIN ms : ms[i] = m})

\* A GET was answered when no POST was under way, with the ListTransport
\* as transport, after POSTs that were all answered 200.
GetAfterPosts ==
    /\ got.status # NoResponse
    /\ got.quiet
    /\ env = "int"
    /\ hist.allOK

\* C11: POSTs served at once against the ListTransport singleton, all
\* answered 200, and then a GET: the list the GET returns holds every
\* message sent as often as it was sent, none lost and none twice.
C11_ConcurrentPostsAllListed ==
    (GetAfterPosts /\ hist.overlapped)
        => /\ got.status = StatusOK
           /\ UnmarshalMessages(got.body).err = ""
           /\ Len(UnmarshalMessages(got.body).list) = Len(hist.sent)
           /\ \A m \in Messages :
                  Count(UnmarshalMessages(got.body).list, m) = Count(hist.sent, m)

\* C12: after POSTs made one after the other and each answered 200, a GET
\* is answered 200 with a body that decodes to exactly the messages sent,
\* in the order they were sent.
C12_SequentialPostsListedInOrder ==
    (GetAfterPosts /\ ~hist.overlapped)
        => /\ got.status = StatusOK
           /\ UnmarshalMessages(got.body).err = ""
           /\ UnmarshalMessages(got.body).list = hist.sent

\* Two different messages were sent one after the other and the GET
\* returned them in that order.
C12_Witness ==
    /\ GetAfterPosts
    /\ ~hist.overlapped
    /\ Len(hist.sent) = 2
    /\ hist.sent[1] = Message("kkrs", "world", "hello")
    /\ hist.sent[2] # hist.sent[1]
    /\ UnmarshalMessages(got.body).list = hist.sent

\* A response body that is one error envelope.
IsEnvelope(body) ==
    /\ Len(body) = 1
    /\ body[1].kind = "object"
    /\ Len(body[1].obj) = 1
    /\ body[1].obj[1][1] = "error"

\* C14: a POST is answered 200 with an empty body exactly when its body
\* was read and decoded and the transport's Send succeeded, and otherwise
\* with 500 and the error envelope as body; never 200 after a failure.
C14_SendReplies ==
    \A c \in Clients :
        clients[c].pc = "done"
            => IF clients[c].decoded /\ clients[c].err = ""
               THEN clients[c].rw = [status |-> StatusOK, body |-> <<>>]
               ELSE /\ clients[c].rw.status = StatusInternalServerError
                    /\ IsEnvelope(clients[c].rw.body)


\* A step in which client c's call of Transport.Send returns.
SendReturns(c) ==
    /\ clients[c].pc \in {"send", "append"}
    /\ clients'[c].pc = "finish"

\* C21: a POST whose body could not be read or decoded stores nothing:
\* Transport.Send is not run for it, so no step of such a request changes
\* the transport's stored messages.
C21_FailedDecodeStoresNothing ==
    [][\A c \in Clients :
           (SendReturns(c) /\ ~clients[c].decoded) => msgs' = msgs]_vars


(***************************************************************************)
(* Letter case of verbs (SpecDi).                                          *)
(***************************************************************************)
\* A request method that strings.ToUpper would change.
NotUpperCase(v) == ToUpper(v) # v

\* The request is handed to a registered pattern's verb table: no redirect
\* and no 404 from patternMux.
PatternMatched(pm, req) ==
    /\ cleanPath(req.path) = req.path
    /\ ~RedirectsToSlash(pm, req.path)
    /\ Matching(pm, req.path) # {}

\* C22: Register stores each binding under its verb in upper case and
\* request methods are looked up as given: after a successful Register a
\* request with method upper(v) and the binding's path reaches the adapter
\* of the binding declared with verb v, and a request whose method is not
\* upper case reaches no route a Dispatcher registered: no handler runs,
\* and it is answered 405 when a pattern matched.
C22_VerbsStoredUpperLookedUpVerbatim ==
    /\ (last.op = "Register" /\ last.result = "ok")
           => \A i \in DOMAIN last.bindings :
                  ServedFor(last.bindings[i], last.ctrl).out
                      = Outcome(NoResponse, AdapterOf(last.bindings[i]))
    /\ \A r \in Requests :
           NotUpperCase(r.verb)
               => LET out == patternMuxServeHTTP(patternMux, r)
                  IN  /\ out.handler = NoHandler
                      /\ PatternMatched(patternMux, r) => out.status = StatusMethodNotAllowed
    /\ (last.op = "ServeHTTP" /\ NotUpperCase(last.req.verb))
           => /\ last.invoked = NoHandler
              /\ last.trace = <<>>

\* A request "post" was answered 405 on a pattern whose binding, declared
\* with a lower-case verb, is reached by the request "POST".
C22_Witness ==
    /\ last.op = "ServeHTTP"
    /\ last.req.verb = "post"
    /\ last.status = StatusMethodNotAllowed
    /\ last.invoked = NoHandler
    /\ PatternMatched(patternMux, last.req)
    /\ patternMuxServeHTTP(patternMux, Request("POST", last.req.path)).handler.kind
           = "adapter"

====
